---- MODULE Spec2Model ----
(***************************************************************************)
(* Model of grimoirelib/demography.py: ActivityPersons (query building)    *)
(* and DurationPersons (age / idle durations, with SnapshotCondition and   *)
(* ActiveCondition).                                                       *)
(*                                                                         *)
(* The classes ActivityList (active, age, idle, maxend), SCMQuery,         *)
(* buildSession and the query conditions live in other modules of the      *)
(* repository (scm_query.py, scm.py); they are modelled from their         *)
(* documented contract.                                                    *)
(***************************************************************************)
EXTENDS Integers, Sequences, FiniteSets, TLC

VARIABLES
    dp,        \* the DurationPersons object held by the caller (<<>>: none yet)
    call,      \* the last DurationPersons call: operation, arguments, object before it
    ret,       \* value returned by the last call (<<>>: None / nothing returned)
    err,       \* exception raised by the last call ("none": it returned)
    log,       \* collaborator calls made during the last call, in order
    implicit,  \* reference time derived by the object's last snapshot-less durations()
    ap,        \* the ActivityPersons object held by the caller (<<>>: none yet)
    apcall,    \* the last ActivityPersons call: operation and arguments
    aperr,     \* exception raised by the last ActivityPersons call
    calls,     \* collaborator calls made during the last ActivityPersons call
    apret      \* value returned by the last ActivityPersons call

dpvars == <<dp, call, ret, err, log, implicit>>
apvars == <<ap, apcall, aperr, calls, apret>>
vars == <<dp, call, ret, err, log, implicit, ap, apcall, aperr, calls, apret>>

----------------------------------------------------------------------------
(* Bounds *)

\* longest list of conditions handed to a constructor
MaxConds == 2

\* timestamps
Times == 0..1
Persons == {"alice", "bob"}

----------------------------------------------------------------------------
(* Python values *)

\* Python's None; a value v that may be None is <<>> or <<v>>
None == <<>>
Some(v) == <<v>>

NoError == "none"

Min(S) == CHOOSE x \in S : \A y \in S : x <= y
Max(S) == CHOOSE x \in S : \A y \in S : x >= y
Range(s) == {s[i] : i \in 1..Len(s)}

----------------------------------------------------------------------------
(* ActivityList: person -> ascending, non-empty sequence of timestamps *)

Timelines ==
    {s \in UNION {[1..n -> Times] : n \in 1..Cardinality(Times)} :
        \A i \in 1..(Len(s) - 1) : s[i] < s[i + 1]}

ActivityLists == UNION {[D -> Timelines] : D \in SUBSET Persons}

\* after <= ts (if after given) and ts < before (if before given)
InWindow(ts, after, before) ==
    /\ (after # None => after[1] <= ts)
    /\ (before # None => ts < before[1])

\* ActivityList.active(after, before): the persons with at least one
\* timestamp in the window, each with its whole timeline
active(list, after, before) ==
    LET keep == {p \in DOMAIN list :
                    \E ts \in Range(list[p]) : InWindow(ts, after, before)}
    IN  [p \in keep |-> list[p]]

\* ActivityList.age(date): date - earliest(person)
age(list, date) == [p \in DOMAIN list |-> date - Min(Range(list[p]))]

\* ActivityList.idle(date): date - latest(person)
idle(list, date) == [p \in DOMAIN list |-> date - Max(Range(list[p]))]

\* ActivityList.maxend(): latest timestamp of all persons; fails on an
\* empty list
maxend(list) ==
    IF DOMAIN list = {}
    THEN [err |-> "EmptyDomainError", val |-> None]
    ELSE [err |-> NoError,
          val |-> Some(Max(UNION {Range(list[p]) : p \in DOMAIN list}))]

----------------------------------------------------------------------------
(* Duration conditions *)

SnapshotCondition(date) ==
    [kind |-> "SnapshotCondition", date |-> Some(date),
     after |-> None, before |-> None]

ActiveCondition(after, before) ==
    [kind |-> "ActiveCondition", date |-> None,
     after |-> after, before |-> before]

Bounds == {None} \cup {Some(t) : t \in Times}

DurationConditions ==
    {SnapshotCondition(t) : t \in Times}
    \cup {ActiveCondition(a, b) : a \in Bounds, b \in Bounds}

SeqsUpTo(S, n) == UNION {[1..k -> S] : k \in 0..n}

----------------------------------------------------------------------------
(* DurationPersons *)

DurationVars == {"age", "idle"}

\* DurationPersons.set_snapshot
set_snapshot(self, time) == [self EXCEPT !.snapshot = time]

\* DurationPersons.set_activity
set_activity(self, activity) == [self EXCEPT !.activity = activity]

\* SnapshotCondition.modify
SnapshotCondition_modify(cond, object) == set_snapshot(object, cond.date)

\* a slip: the window is closed at the snapshot when no end is given
ActiveCondition_modify_AsOfSnapshot(cond, object) ==
    set_activity(object,
                 active(object.activity, cond.after,
                        IF cond.before = None THEN object.snapshot
                        ELSE cond.before))

\* a slip: the end of the window is dropped
ActiveCondition_modify_NoBefore(cond, object) ==
    set_activity(object, active(object.activity, cond.after, None))

\* ActiveCondition.modify
ActiveCondition_modify(cond, object) ==
    set_activity(object,
                 active(object.activity, cond.after, cond.before))

\* condition.modify(object), dispatched on the condition's class
modify(cond, object) ==
    IF cond.kind = "SnapshotCondition"
    THEN SnapshotCondition_modify(cond, object)
    ELSE ActiveCondition_modify(cond, object)

\* for condition in conditions: condition.modify(self), from the i-th on;
\* trace lists the conditions whose modify ran
RECURSIVE ApplyFrom(_, _, _, _)
ApplyFrom(self, trace, conditions, i) ==
    IF i > Len(conditions)
    THEN [self |-> self, trace |-> trace]
    ELSE ApplyFrom(modify(conditions[i], self),
                   Append(trace, conditions[i]), conditions, i + 1)

\* a slip: the loop starts at the second condition
ApplyConditions_SkipFirst(self, conditions) ==
    ApplyFrom(self, <<>>, conditions, 2)

ApplyConditions(self, conditions) == ApplyFrom(self, <<>>, conditions, 1)

\* DurationPersons.__init__: the message of the exception for a bad var
\* reads self.var, which is not yet set, so AttributeError is what is raised
DurationPersons_init(var, activity, conditions) ==
    LET self0 == [activity |-> activity, var |-> "", snapshot |-> None]
    IN  IF var \notin DurationVars
        THEN [err |-> "AttributeError", self |-> self0, trace |-> <<>>]
        ELSE LET self1 == [self0 EXCEPT !.var = var, !.snapshot = None]
                 done == ApplyConditions(self1, conditions)
             IN  [err |-> NoError, self |-> done.self, trace |-> done.trace]

\* a slip: the latest event always is the reference time
ReferenceTime_AlwaysMaxend(self) ==
    LET m == maxend(self.activity)
    IN  [err |-> m.err, val |-> m.val, trace |-> <<"maxend">>]

\* durations, lines 264-267: the snapshot if one is set, else
\* self.activity.maxend(); trace lists the ActivityList methods called
ReferenceTime(self) ==
    IF self.snapshot = None
    THEN LET m == maxend(self.activity)
         IN  [err |-> m.err, val |-> m.val, trace |-> <<"maxend">>]
    ELSE [err |-> NoError, val |-> self.snapshot, trace |-> <<>>]

\* durations, lines 268-272: age or idle at the reference time
DurationsAt(self, snapshot) ==
    IF self.var = "age"
    THEN [err |-> NoError, ret |-> Some(age(self.activity, snapshot)),
          trace |-> <<"age">>]
    ELSE IF self.var = "idle"
    THEN [err |-> NoError, ret |-> Some(idle(self.activity, snapshot)),
          trace |-> <<"idle">>]
    ELSE [err |-> "UnboundLocalError", ret |-> None, trace |-> <<>>]

\* a slip: the derived reference time is kept in self.snapshot
durations_StoresSnapshot(self) ==
    LET ref == ReferenceTime(self)
    IN  IF ref.err # NoError
        THEN [self |-> self, err |-> ref.err, ret |-> None,
              trace |-> ref.trace]
        ELSE LET d == DurationsAt(self, ref.val[1])
             IN  [self |-> [self EXCEPT !.snapshot = ref.val],
                  err |-> d.err, ret |-> d.ret,
                  trace |-> ref.trace \o d.trace]

\* DurationPersons.durations: the object after the call, the exception, the
\* returned mapping and the ActivityList methods called
durations(self) ==
    LET ref == ReferenceTime(self)
    IN  IF ref.err # NoError
        THEN [self |-> self, err |-> ref.err, ret |-> None,
              trace |-> ref.trace]
        ELSE LET d == DurationsAt(self, ref.val[1])
             IN  [self |-> self, err |-> d.err, ret |-> d.ret,
                  trace |-> ref.trace \o d.trace]

----------------------------------------------------------------------------
(* The caller's steps on DurationPersons *)

NoCall == [op |-> "none", var |-> "", activity |-> <<>>,
           conditions |-> <<>>, before |-> None, prev |-> None]

\* age = DurationPersons(var, activity, conditions): the one construction
\* of the object's life (an object is built once and not reused)
NewDurationPersons ==
    /\ call.op = "none"
    /\ \E var \in DurationVars \cup {"length"}, activity \in ActivityLists,
       conditions \in SeqsUpTo(DurationConditions, MaxConds) :
        LET r == DurationPersons_init(var, activity, conditions)
        IN  /\ call' = [NoCall EXCEPT !.op = "init", !.var = var,
                                      !.activity = activity,
                                      !.conditions = conditions]
            /\ err' = r.err
            /\ log' = r.trace
            /\ ret' = None
            /\ dp' = IF r.err = NoError THEN Some(r.self) ELSE dp
            /\ implicit' = IF r.err = NoError THEN None ELSE implicit
            /\ UNCHANGED apvars

\* age.set_snapshot(time)
SetSnapshot ==
    /\ dp # None
    /\ \E time \in Times :
        /\ dp' = Some(set_snapshot(dp[1], Some(time)))
        /\ call' = [NoCall EXCEPT !.op = "set_snapshot", !.before = dp]
    /\ err' = NoError
    /\ log' = <<>>
    /\ ret' = None
    /\ UNCHANGED <<implicit, apvars>>

\* age.set_activity(activity)
SetActivity ==
    /\ dp # None
    /\ \E activity \in ActivityLists :
        /\ dp' = Some(set_activity(dp[1], activity))
        /\ call' = [NoCall EXCEPT !.op = "set_activity", !.before = dp]
    /\ err' = NoError
    /\ log' = <<>>
    /\ ret' = None
    /\ UNCHANGED <<implicit, apvars>>

\* condition.modify(age), called on an object already built
Modify ==
    /\ dp # None
    /\ \E cond \in DurationConditions :
        /\ dp' = Some(modify(cond, dp[1]))
        /\ call' = [NoCall EXCEPT !.op = "modify", !.conditions = <<cond>>,
                                  !.before = dp]
        /\ log' = <<cond>>
    /\ err' = NoError
    /\ ret' = None
    /\ UNCHANGED <<implicit, apvars>>

\* age.durations()
Durations ==
    /\ dp # None
    /\ LET r == durations(dp[1])
       IN  /\ dp' = Some(r.self)
           /\ call' = [NoCall EXCEPT !.op = "durations", !.before = dp,
                                     !.prev = implicit]
           /\ err' = r.err
           /\ ret' = r.ret
           /\ log' = r.trace
           /\ implicit' = IF dp[1].snapshot = None /\ r.err = NoError
                          THEN maxend(dp[1].activity).val
                          ELSE implicit
    /\ UNCHANGED apvars

----------------------------------------------------------------------------
(* Collaborators of ActivityPersons: buildSession, the session's query and *)
(* the SCMQuery methods. A query is the sequence of the steps that built   *)
(* it; every collaborator call is logged with the query it was made on.    *)

CallerSession == [origin |-> "caller", database |-> "", echo |-> FALSE]

\* buildSession(database, echo)
buildSession(database, echo) ==
    [origin |-> "buildSession", database |-> database, echo |-> echo]

Called(fn, arg, on) == [fn |-> fn, arg |-> arg, on |-> on]

\* query.<fn>(arg): a new query, the receiver followed by the step
Step(query, fn, arg) == Append(query, <<fn, arg>>)

QueryConditions == {"PeriodCondition", "NomergesCondition"}

----------------------------------------------------------------------------
(* ActivityPersons *)

ActivityVars ==
    {"list_authors", "list_committers", "list_uauthors", "list_ucommitters"}

\* a slip: the database descriptor is looked at first
OpenSession_DatabaseFirst(session, database, echo) ==
    IF database # None
    THEN [err |-> NoError, session |-> Some(buildSession(database[1], echo)),
          calls |-> <<Called("buildSession", database[1], <<>>)>>]
    ELSE IF session # None
    THEN [err |-> NoError, session |-> session, calls |-> <<>>]
    ELSE [err |-> "ConfigurationError", session |-> None, calls |-> <<>>]

\* __init__, lines 67-75: the session given, or one built from the database
OpenSession(session, database, echo) ==
    IF session # None
    THEN [err |-> NoError, session |-> session, calls |-> <<>>]
    ELSE IF database # None
    THEN [err |-> NoError, session |-> Some(buildSession(database[1], echo)),
          calls |-> <<Called("buildSession", database[1], <<>>)>>]
    ELSE [err |-> "ConfigurationError", session |-> None, calls |-> <<>>]

\* __init__, lines 76-81: the role of the persons (None: unknown variable)
PersonsOf(var) ==
    IF var \in {"list_authors", "list_uauthors"} THEN Some("authors")
    ELSE IF var \in {"list_committers", "list_ucommitters"}
    THEN Some("committers")
    ELSE None

\* a slip: the unified identities are selected for every variable
SelectPersons_AlwaysUid(query, var, persons) ==
    [err |-> NoError,
     query |-> Step(query, "select_personsdata_uid", persons),
     calls |-> <<Called("select_personsdata_uid", persons, query)>>]

\* __init__, lines 83-88: raw or unified identities
SelectPersons(query, var, persons) ==
    IF var \in {"list_authors", "list_committers"}
    THEN [err |-> NoError,
          query |-> Step(query, "select_personsdata", persons),
          calls |-> <<Called("select_personsdata", persons, query)>>]
    ELSE IF var \in {"list_uauthors", "list_ucommitters"}
    THEN [err |-> NoError,
          query |-> Step(query, "select_personsdata_uid", persons),
          calls |-> <<Called("select_personsdata_uid", persons, query)>>]
    ELSE [err |-> "InvalidVariableError", query |-> query, calls |-> <<>>]

\* __init__, lines 89-91: .select_commitsperiod().group_by_person()
PeriodByPerson(query) ==
    LET q1 == Step(query, "select_commitsperiod", "")
        q2 == Step(q1, "group_by_person", "")
    IN  [query |-> q2,
         calls |-> <<Called("select_commitsperiod", "", query),
                     Called("group_by_person", "", q1)>>]

\* __init__, lines 92-93: self.query = condition.filter(self.query), from
\* the i-th condition on
RECURSIVE FilterFrom(_, _, _, _)
FilterFrom(query, made, conditions, i) ==
    IF i > Len(conditions)
    THEN [query |-> query, calls |-> made]
    ELSE FilterFrom(Step(query, "filter", conditions[i]),
                    Append(made, Called("filter", conditions[i], query)),
                    conditions, i + 1)

\* ActivityPersons.__init__
ActivityPersons_init(var, conditions, session, database, echo) ==
    LET s == OpenSession(session, database, echo)
        persons == PersonsOf(var)
        noself == [session |-> CallerSession, query |-> <<>>]
    IN  IF s.err # NoError
        THEN [err |-> s.err, self |-> noself, calls |-> s.calls]
        ELSE IF persons = None
        THEN [err |-> "InvalidVariableError", self |-> noself,
              calls |-> s.calls]
        ELSE
        LET q0 == <<>>
            c0 == Append(s.calls, Called("query", "", <<>>))
            sel == SelectPersons(q0, var, persons[1])
        IN  IF sel.err # NoError
            THEN [err |-> sel.err, self |-> noself,
                  calls |-> c0 \o sel.calls]
            ELSE
            LET pg == PeriodByPerson(sel.query)
                f == FilterFrom(pg.query, <<>>, conditions, 1)
            IN  [err |-> NoError,
                 self |-> [session |-> s.session[1], query |-> f.query],
                 calls |-> c0 \o sel.calls \o pg.calls \o f.calls]

----------------------------------------------------------------------------
(* The caller's steps on ActivityPersons *)

NoApCall == [op |-> "none", var |-> "", conditions |-> <<>>,
             session |-> None, database |-> None, echo |-> FALSE]

\* data = ActivityPersons(var, conditions, session, database, echo): the
\* one construction of the object's life
NewActivityPersons ==
    /\ apcall.op = "none"
    /\ \E var \in ActivityVars \cup {"list_foo"},
          conditions \in SeqsUpTo(QueryConditions, MaxConds),
          session \in {None, Some(CallerSession)},
          database \in {None, Some("mysql://db")},
          echo \in BOOLEAN :
        LET r == ActivityPersons_init(var, conditions, session, database,
                                      echo)
        IN  /\ apcall' = [op |-> "init", var |-> var,
                          conditions |-> conditions, session |-> session,
                          database |-> database, echo |-> echo]
            /\ aperr' = r.err
            /\ calls' = r.calls
            /\ ap' = IF r.err = NoError THEN Some(r.self) ELSE ap
            /\ apret' = None
    /\ UNCHANGED dpvars

\* data.activity(): return self.query.activity(), the list the datastore
\* gives for the query
Activity ==
    /\ ap # None
    /\ \E list \in ActivityLists :
        /\ apret' = Some(list)
        /\ calls' = <<Called("activity", "", ap[1].query)>>
    /\ apcall' = [apcall EXCEPT !.op = "activity"]
    /\ aperr' = NoError
    /\ UNCHANGED <<ap, dpvars>>

Init ==
    /\ dp = None
    /\ call = NoCall
    /\ ret = None
    /\ err = NoError
    /\ log = <<>>
    /\ implicit = None
    /\ ap = None
    /\ apcall = NoApCall
    /\ aperr = NoError
    /\ calls = <<>>
    /\ apret = None

Next ==
    \/ NewDurationPersons
    \/ SetSnapshot
    \/ SetActivity
    \/ Modify
    \/ Durations

Spec == Init /\ [][Next]_vars

NextActivity ==
    \/ NewActivityPersons
    \/ Activity

SpecActivity == Init /\ [][NextActivity]_vars

----------------------------------------------------------------------------
(* Properties of DurationPersons.durations *)

AfterDurations == call.op = "durations"
SelfBefore == call.before[1]

\* the mapping the ActivityList gives for var at time t
Expected(var, activity, t) ==
    IF var = "age" THEN age(activity, t) ELSE idle(activity, t)

AllEvents(list) == UNION {Range(list[p]) : p \in DOMAIN list}

\* C1: with a snapshot T set, durations() returns activity.age(T) (var
\* "age") or activity.idle(T) (var "idle") of the activity it holds,
\* whatever the latest event of that activity is, and leaves the object as
\* it was.
C1_SnapshotDurations ==
    (AfterDurations /\ SelfBefore.snapshot # None) =>
        /\ err = NoError
        /\ ret = Some(Expected(SelfBefore.var, SelfBefore.activity,
                               SelfBefore.snapshot[1]))
        /\ dp = call.before

\* a durations() call with a snapshot earlier than every event of a
\* non-empty activity: the reference time is not maxend(), ages are negative
C1_Witness ==
    /\ AfterDurations
    /\ SelfBefore.snapshot # None
    /\ DOMAIN SelfBefore.activity # {}
    /\ \A t \in AllEvents(SelfBefore.activity) : SelfBefore.snapshot[1] < t
    /\ err = NoError
    /\ \A p \in DOMAIN ret[1] : ret[1][p] < 0

\* C2: with no snapshot set, durations() on a non-empty activity returns
\* age/idle at maxend() of the activity held at the call, and the derived
\* time is not stored: the object, its snapshot included, is unchanged.
C2_ImplicitDurations ==
    (AfterDurations /\ SelfBefore.snapshot = None
        /\ DOMAIN SelfBefore.activity # {}) =>
        /\ err = NoError
        /\ ret = Some(Expected(SelfBefore.var, SelfBefore.activity,
                               maxend(SelfBefore.activity).val[1]))
        /\ dp = call.before
        /\ dp[1].snapshot = None

\* a snapshot-less durations() whose reference time differs from the one an
\* earlier durations() of the same object derived: the activity was replaced
\* in between
C2_Witness ==
    /\ AfterDurations
    /\ SelfBefore.snapshot = None
    /\ DOMAIN SelfBefore.activity # {}
    /\ call.prev # None
    /\ call.prev # maxend(SelfBefore.activity).val
    /\ err = NoError
    /\ ret = Some(Expected(SelfBefore.var, SelfBefore.activity,
                           maxend(SelfBefore.activity).val[1]))

\* C7: durations() raises the empty-domain error exactly when no snapshot
\* is set and the activity is empty; with a snapshot set and an empty
\* activity it returns the empty mapping and does not call maxend().
C7_EmptyDomain ==
    AfterDurations =>
        /\ (err = "EmptyDomainError") <=>
              (SelfBefore.snapshot = None /\ DOMAIN SelfBefore.activity = {})
        /\ (SelfBefore.snapshot # None /\ DOMAIN SelfBefore.activity = {}) =>
              /\ err = NoError
              /\ ret # None
              /\ DOMAIN ret[1] = {}
              /\ "maxend" \notin Range(log)

\* durations() failed on an activity that holds nobody
C7_Witness ==
    /\ AfterDurations
    /\ SelfBefore.snapshot = None
    /\ DOMAIN SelfBefore.activity = {}
    /\ err = "EmptyDomainError"
    /\ ret = None

----------------------------------------------------------------------------
(* Properties of the construction of DurationPersons *)

Built == call.op = "init" /\ err = NoError

IsActive(c) == c.kind = "ActiveCondition"
IsSnapshot(c) == c.kind = "SnapshotCondition"

\* the later of two starts, the earlier of two ends (None: unbounded)
LaterStart(a1, a2) ==
    IF a1 = None THEN a2
    ELSE IF a2 = None THEN a1
    ELSE Some(Max({a1[1], a2[1]}))

EarlierEnd(b1, b2) ==
    IF b1 = None THEN b2
    ELSE IF b2 = None THEN b1
    ELSE Some(Min({b1[1], b2[1]}))

TwoActive ==
    /\ Built
    /\ Len(call.conditions) = 2
    /\ IsActive(call.conditions[1])
    /\ IsActive(call.conditions[2])

\* the object built from the same var and activity with the one
\* ActiveCondition of the intersected window
Intersected ==
    DurationPersons_init(
        call.var, call.activity,
        <<ActiveCondition(
            LaterStart(call.conditions[1].after, call.conditions[2].after),
            EarlierEnd(call.conditions[1].before,
                       call.conditions[2].before))>>).self

HasEventIn(list, p, c) ==
    \E ts \in Range(list[p]) : InWindow(ts, c.after, c.before)

\* C3 as stated: two ActiveConditions in sequence leave the activity that
\* the single ActiveCondition of the intersected window leaves.
C3_SequenceIsIntersection ==
    TwoActive => dp[1].activity = Intersected.activity

\* C3 amended: two ActiveConditions in sequence keep exactly the persons
\* with an event in the first window and an event (maybe another one) in
\* the second, each with its whole timeline; these include every person the
\* single ActiveCondition of the intersected window keeps.
C3_SequenceIsConjunction ==
    TwoActive =>
        /\ DOMAIN dp[1].activity =
              {p \in DOMAIN call.activity :
                  /\ HasEventIn(call.activity, p, call.conditions[1])
                  /\ HasEventIn(call.activity, p, call.conditions[2])}
        /\ \A p \in DOMAIN dp[1].activity :
              dp[1].activity[p] = call.activity[p]
        /\ DOMAIN Intersected.activity \subseteq DOMAIN dp[1].activity

\* two windows with an end each, and a person kept by the sequence whom the
\* intersected window drops
C3_Witness ==
    /\ TwoActive
    /\ call.conditions[1].before # None
    /\ call.conditions[2].after # None
    /\ DOMAIN dp[1].activity # {}
    /\ DOMAIN dp[1].activity # DOMAIN call.activity
    /\ DOMAIN Intersected.activity # DOMAIN dp[1].activity

\* C5 as stated: a var other than age and idle makes the construction fail
\* with the invalid-variable error, before any condition's modify runs.
C5_InvalidVariable ==
    (call.op = "init" /\ call.var \notin DurationVars) =>
        /\ err = "InvalidVariableError"
        /\ log = <<>>
        /\ dp = None

ActivesOf(conditions) == SelectSeq(conditions, IsActive)
SnapshotsOf(conditions) == SelectSeq(conditions, IsSnapshot)

\* list.active(c1).active(c2)...active(cn)
RECURSIVE Narrowed(_, _)
Narrowed(list, actives) ==
    IF actives = <<>> THEN list
    ELSE Narrowed(active(list, Head(actives).after, Head(actives).before),
                  Tail(actives))

\* the activity held after the first k conditions
AfterPrefix(k) ==
    DurationPersons_init(call.var, call.activity,
                         SubSeq(call.conditions, 1, k)).self.activity

\* C9: the construction runs modify of every condition once, in list
\* order; the held activity is the original narrowed by the
\* ActiveConditions in turn, so its persons are among the original's and
\* among those left after any prefix of the list; the held snapshot is the
\* date of the last SnapshotCondition, None without one.
C9_ConditionsInOrder ==
    Built =>
        /\ log = call.conditions
        /\ dp[1].activity =
              Narrowed(call.activity, ActivesOf(call.conditions))
        /\ DOMAIN dp[1].activity \subseteq DOMAIN call.activity
        /\ \A k \in 0..Len(call.conditions) :
              DOMAIN dp[1].activity \subseteq DOMAIN AfterPrefix(k)
        /\ dp[1].snapshot =
              IF SnapshotsOf(call.conditions) = <<>> THEN None
              ELSE SnapshotsOf(call.conditions)[
                       Len(SnapshotsOf(call.conditions))].date
        /\ dp[1].var = call.var

\* a construction whose first condition is an ActiveCondition that drops
\* somebody, followed by another condition
C9_Witness ==
    /\ Built
    /\ Len(call.conditions) >= 2
    /\ IsActive(call.conditions[1])
    /\ DOMAIN AfterPrefix(1) # DOMAIN call.activity
    /\ DOMAIN dp[1].activity # {}
    /\ log = call.conditions

InsertAt(s, k, e) == SubSeq(s, 1, k) \o <<e>> \o SubSeq(s, k + 1, Len(s))

OneSnapshot == Built /\ Len(SnapshotsOf(call.conditions)) = 1

\* the object built with the SnapshotCondition after the first k
\* ActiveConditions
Repositioned(k) ==
    DurationPersons_init(
        call.var, call.activity,
        InsertAt(ActivesOf(call.conditions), k,
                 SnapshotsOf(call.conditions)[1])).self

\* C10: with one SnapshotCondition(T) in the list, the object built is the
\* one built with the SnapshotCondition at any other place among the same
\* ActiveConditions: same activity, snapshot T, same durations().
C10_SnapshotPosition ==
    OneSnapshot =>
        \A k \in 0..Len(ActivesOf(call.conditions)) :
            /\ Repositioned(k).activity = dp[1].activity
            /\ Repositioned(k).snapshot = dp[1].snapshot
            /\ dp[1].snapshot = SnapshotsOf(call.conditions)[1].date
            /\ durations(Repositioned(k)).ret = durations(dp[1]).ret
            /\ durations(Repositioned(k)).err = durations(dp[1]).err

\* a SnapshotCondition placed before an ActiveCondition that drops somebody
C10_Witness ==
    /\ OneSnapshot
    /\ Len(call.conditions) >= 2
    /\ IsSnapshot(call.conditions[1])
    /\ DOMAIN dp[1].activity # {}
    /\ DOMAIN dp[1].activity # DOMAIN call.activity

----------------------------------------------------------------------------
(* Properties of the construction of ActivityPersons *)

ApInit == apcall.op = "init"
CalledFns == {calls[i].fn : i \in 1..Len(calls)}

\* C4 as stated: with a session or a database given, a var outside the
\* four recognized ones fails with the unknown-variable error before
\* buildSession, the session's query or any condition's filter is called.
C4_UnknownVarBeforeAccess ==
    (ApInit /\ apcall.var \notin ActivityVars
        /\ (apcall.session # None \/ apcall.database # None)) =>
        /\ aperr = "InvalidVariableError"
        /\ calls = <<>>

\* C6: with neither a session nor a database the construction fails with
\* the configuration error whatever var and the conditions are, and calls
\* no collaborator; a session given is the one used, and buildSession is
\* not called, also when a database is given.
C6_Configuration ==
    ApInit =>
        /\ (apcall.session = None /\ apcall.database = None) =>
              /\ aperr = "ConfigurationError"
              /\ calls = <<>>
              /\ ap = None
        /\ (apcall.session # None) =>
              /\ "buildSession" \notin CalledFns
              /\ aperr # "ConfigurationError"
              /\ (aperr = NoError => ap[1].session = apcall.session[1])

\* neither given, with a recognized var and a condition
C6_Witness ==
    /\ ApInit
    /\ apcall.session = None
    /\ apcall.database = None
    /\ apcall.var \in ActivityVars
    /\ apcall.conditions # <<>>
    /\ aperr = "ConfigurationError"

\* the steps a recognized var and the conditions ask for
ExpectedSteps(var, conditions) ==
    << <<IF var \in {"list_authors", "list_committers"}
         THEN "select_personsdata" ELSE "select_personsdata_uid",
         IF var \in {"list_authors", "list_uauthors"}
         THEN "authors" ELSE "committers">>,
       <<"select_commitsperiod", "">>,
       <<"group_by_person", "">> >>
    \o [i \in 1..Len(conditions) |-> <<"filter", conditions[i]>>]

\* the calls made on queries, in order
QueryCalls == SelectSeq(calls, LAMBDA c : c.fn \notin {"buildSession", "query"})

\* C8: a construction that succeeds calls, in this order, the projection
\* of the persons (raw or unified, authors or committers, as var says),
\* select_commitsperiod, group_by_person and the filter of every condition
\* once in list order, each on the query the step before returned; the
\* query kept is what the last step returned.
C8_QuerySteps ==
    (ApInit /\ aperr = NoError) =>
        LET steps == ExpectedSteps(apcall.var, apcall.conditions)
        IN  /\ Len(QueryCalls) = Len(steps)
            /\ \A i \in 1..Len(steps) :
                  /\ <<QueryCalls[i].fn, QueryCalls[i].arg>> = steps[i]
                  /\ QueryCalls[i].on = SubSeq(steps, 1, i - 1)
            /\ ap[1].query = steps
            /\ Len(SelectSeq(calls, LAMBDA c : c.fn = "query")) = 1

\* a construction for unified committers with two different conditions
C8_Witness ==
    /\ ApInit
    /\ aperr = NoError
    /\ apcall.var = "list_ucommitters"
    /\ Len(apcall.conditions) >= 2
    /\ apcall.conditions[1] # apcall.conditions[2]
    /\ ap[1].query[Len(ap[1].query)] = <<"filter", apcall.conditions[2]>>

====
